---- MODULE Spec2Model ----
(***************************************************************************)
(* Model of the starpc runtime core.                                       *)
(*                                                                         *)
(* Part 1: the Go ServerRPC (srpc/server-rpc.go): the packet handling path *)
(* (HandlePacket, HandleCallStart, HandleCallData, HandleCallStartResp),   *)
(* the invocation task (invokeRPC), Close, and the stream handed to the    *)
(* handler (srpc/msg-stream.go: MsgSend, MsgRecv, CloseSend, Close, and    *)
(* the generated SendAndClose).                                            *)
(*                                                                         *)
(* Errors are strings; the empty string is the nil error.  Payloads are    *)
(* sequences of bytes.                                                     *)
(***************************************************************************)
EXTENDS Integers, Sequences, FiniteSets, TLC

(***************************************************************************)
(* Bounds of the model.                                                    *)
(***************************************************************************)
\* number of payloads the client sends that reach the receive queue
MaxPayloads == 6
\* number of stream operations the handler performs before it returns
MaxHandlerOps == 1
\* number of ServerRPC.Close calls
MaxCloseCalls == 1
\* number of stream operations of a handler that only sends and closes
MaxStreamOps == 3
\* number of calls made on one TypeScript CommonRPC
MaxTsOps == 3
\* number of Write calls on each read/writer of the tunnel
MaxTunWrites == 2
\* number of Read calls on the opener's read/writer
MaxReads == 3
\* length of the buffer given to Read
MaxReadBuf == 2
\* number of payload bytes the remote sends in Data frames
MaxTunBytes == 4
\* length of the payload of one Data frame
MaxFrame == 3

\* longest byte string and longest prior content of a RawMessage
MaxRawLen == 2

(***************************************************************************)
(* Program constants.                                                      *)
(***************************************************************************)
\* make(chan []byte, 5)
DataChCap == 5

NoErr == ""
ErrCompleted == "unexpected packet after rpc was completed"
ErrUnimplemented == "unimplemented"
ErrUnrecognizedPacket == "call start resp packet unexpected: unrecognized packet type"
ErrStartOnce == "call start must be sent only once"
ErrChanFull == "data channel was full, expected empty"
ErrCanceled == "context canceled"
ErrInvalidStart == "invalid call start: empty service and method"
ErrWriterClosed == "io: read/write on closed pipe"
ErrEOF == "EOF"
\* result slot of a HandlePacket call that has not returned yet
Pending == "<pending>"

ClientErrs == {"client error"}
HandlerErrs == {"handler error"}
ServiceIDs == {"", "svc"}
MethodIDs == {"", "Echo"}

\* A packet carries no payload, a zero-length payload, or the one-byte payload
\* <<k>> where k numbers the payloads sent on the receive queue so far, so that
\* the payloads in the queue are pairwise different.
PayloadsAt(k) == IF k <= MaxPayloads THEN {<<>>, <<k>>} ELSE {<<>>}
\* messages the handler sends
HandlerMsgs == {<<99>>}

(***************************************************************************)
(* Packets (rpcproto): one record shape for every body variant.            *)
(***************************************************************************)
Packet(body, svc, mth, data, isZero, complete, err) ==
    [body |-> body, rpcService |-> svc, rpcMethod |-> mth, data |-> data,
     dataIsZero |-> isZero, complete |-> complete, error |-> err]

\* dataIsZero => len(data) == 0
DataFields(k) ==
    {<<d, z>> \in PayloadsAt(k) \X BOOLEAN : z => Len(d) = 0}

CallStartPackets(k) ==
    {Packet("CallStart", s, m, dz[1], dz[2], FALSE, NoErr) :
        s \in ServiceIDs, m \in MethodIDs, dz \in DataFields(k)}

CallDataPackets(k) ==
    {Packet("CallData", "", "", dz[1], dz[2], c, e) :
        dz \in DataFields(k), c \in BOOLEAN, e \in {NoErr} \cup ClientErrs}

\* CallStartResp, CallCancel and a packet with no (or an unknown) body
OtherPackets ==
    {Packet(b, "", "", <<>>, FALSE, FALSE, NoErr) :
        b \in {"CallStartResp", "CallCancel", "None"}}

\* the packets a HandlePacket call may be given when k - 1 payloads were queued
InPackets(k) == CallStartPackets(k) \cup CallDataPackets(k) \cup OtherPackets

NoPacket == Packet("None", "", "", <<>>, FALSE, FALSE, NoErr)

\* Packet.Validate
Validate(msg) ==
    IF msg.body = "CallStart" /\ msg.rpcService = "" /\ msg.rpcMethod = ""
    THEN ErrInvalidStart
    ELSE NoErr

\* NewCallDataPacket(data, complete, err)
NewCallDataPacket(data, complete, err) ==
    Packet("CallData", "", "", data,
           Len(data) = 0 /\ ~complete /\ err = NoErr, complete, err)

IsTerminal(pkt) ==
    pkt.body = "CallData" /\ (pkt.complete \/ pkt.error # NoErr)

(***************************************************************************)
(* State of one ServerRPC and of the tasks working on it.                  *)
(***************************************************************************)
VARIABLES
    ctxDone,        \* r.ctx is cancelled
    writerClosed,   \* r.writer was closed
    written,        \* packets written on r.writer, in order
    service,        \* r.service
    method,         \* r.method
    dataCh,         \* buffered contents of r.dataCh
    chClosed,       \* r.dataCh (the channel) is closed
    dataChClosed,   \* r.dataChClosed (the flag)
    clientErr,      \* r.clientErr
    rdPC,           \* packet-handling task: "idle", "blocked", "wokenSend", "wokenCancel", "returned"
    rdPkt,          \* packet of the HandleCallData call that blocked, until the next call
    rdBody,         \* body variant of the packet given to HandlePacket
    rdErr,          \* result of the HandlePacket call that returned
    invPC,          \* invocation task: "none", "handler", "sendAndClose", "returned", then the statement of invokeRPC executed last: "write", "cancel", "close"
    muxResult,      \* <<ok, err>> returned by mux.InvokeMethod
    hist            \* history (observation) record, see HistInit

rpcVars == <<ctxDone, writerClosed, written, service, method, dataCh, chClosed,
             dataChClosed, clientErr, rdPC, rdPkt, rdBody, rdErr, invPC,
             muxResult, hist>>

(***************************************************************************)
(* State of one TypeScript CommonRPC (msg-stream.go:95-289).               *)
(***************************************************************************)
VARIABLES
    ts              \* the fields of the object and of the tasks working on it:
                    \*   service, method: this.service, this.method ("" while unset)
                    \*   source:       packets pushed to this._source, in order
                    \*   sourceEnded:  this._source was ended
                    \*   rpcData:      payloads pushed to this._rpcDataSource, in order
                    \*   rpcDataEnded: this._rpcDataSource was ended
                    \*   rpcDataErr:   the error it was ended with ("" for none)
                    \*   closing:      errors of the close() calls suspended at their await
                    \*   srcPC:        writeCallDataFromSource: "none", "running", "done"
                    \*   thrown:       what the last handlePacket call threw ("" for nothing)
                    \*   ops:          calls made on the object so far

tsVars == <<ts>>

(***************************************************************************)
(* State of one rpcstream tunnel (part_000:1-240): an opener running       *)
(* OpenRpcStream and an acceptor running HandleRpcStream, each on its own  *)
(* outer RpcStream whose remote end is the environment.                    *)
(***************************************************************************)
VARIABLES
    tun             \* opener:
                    \*   oPC:       "start", "opened", "waitAck", "done"
                    \*   oComp, oWaitAck: arguments of OpenRpcStream
                    \*   oSent:     packets sent on the outer stream, in order
                    \*   oSendCalls: Send calls on the outer stream
                    \*   oRecvs:    Recv calls made by OpenRpcStream
                    \*   oRecvPkt:  the packet its Recv returned
                    \*   oErr, oRw: results of OpenRpcStream (error, read/writer returned)
                    \*   oCloses:   Close calls on the outer stream
                    \*   wCalls, wN, wErr: Write calls on the read/writer, last result
                    \*   rPC:       Read call: "idle", "loop" (in its for loop)
                    \*   rBuf:      r.buf, the bytes buffered
                    \*   rSize:     len(p) of the Read call
                    \*   rCur:      bytes copied to p by the Read call in progress
                    \*   rN, rErr:  n and err of the Read call (its result once idle)
                    \*   rPkt:      the packet the Read call received last
                    \*   rLate:     a Read call received a packet after copying a byte
                    \*   rIn:       payload bytes of the Data frames received, in order
                    \*   rOut:      bytes the Read calls that returned delivered, in order
                    \*   rCalls:    Read calls
                    \* acceptor:
                    \*   hPC:       "start", "getter", "ack", "nested", "done"
                    \*   hInitPkt:  the first packet received
                    \*   hMux, hRel, hGetErr: what the getter returned
                    \*   hErr:      the resolution error after line 126
                    \*   hSent, hSendCalls: as for the opener
                    \*   hGetterCalls, hReleases: calls of the getter and of its release
                    \*   hNested:   a nested ServerRPC was started
                    \*   hResult:   the error HandleRpcStream returned
                    \*   hLog:      events of the call, in order
                    \*   hWrites:   Write calls of the nested session

tunVars == <<tun>>

(***************************************************************************)
(* State of one RawMessage (message.go:10-13) and of its caller.           *)
(***************************************************************************)
VARIABLES
    raw             \*   arr:   the array behind m.data, cap(m.data) bytes
                    \*   len:   len(m.data)
                    \*   copy:  m.copy
                    \*   unm:   UnmarshalVT was called
                    \*   d:     the argument of the last UnmarshalVT
                    \*   unmErr: what the last UnmarshalVT returned
                    \*   marshalled, out, outErr: MarshalVT was called after
                    \*          the last UnmarshalVT, and what it returned
                    \*   got, data: GetData was called after the last
                    \*          UnmarshalVT, and what it returned

msgVars == <<raw>>

\* the variables of the components other than the Go server call
otherVars == <<tsVars, tunVars, msgVars>>

vars == <<rpcVars, tsVars, tunVars, msgVars>>

srvVars == <<service, method, dataCh, chClosed, dataChClosed, clientErr>>

HistInit ==
    [startSeen    |-> FALSE,  \* a CallStart that passes Validate was handled
     nInvoked     |-> 0,      \* go r.invokeRPC() statements executed
     nAccepted    |-> 0,      \* HandleCallStart calls that returned nil
     nHandlerOps  |-> 0,      \* stream operations of the handler
     nCloseCalls  |-> 0,      \* ServerRPC.Close calls
     chCloses     |-> 0,      \* close(r.dataCh) executions
     sendOnClosed |-> FALSE,  \* a send on the closed r.dataCh happened
     sent         |-> <<>>,   \* payloads sent on r.dataCh, in the order of the sends
     received     |-> <<>>,   \* payloads MsgRecv returned to the handler
     recvErr      |-> NoErr,  \* result of the handler's last MsgRecv
     sendErr      |-> NoErr,  \* result of the handler's last MsgSend
     invLog       |-> <<>>,   \* steps of invokeRPC after the handler returned
     termPkt      |-> NoPacket, \* packet invokeRPC passed to r.writer.MsgSend
     closeLog     |-> <<>>,   \* who closed r.writer, in order
     closeCbCalls |-> 0]      \* close callback invocations

RpcInit ==
    /\ ctxDone = FALSE
    /\ writerClosed = FALSE
    /\ written = <<>>
    /\ service = ""
    /\ method = ""
    /\ dataCh = <<>>
    /\ chClosed = FALSE
    /\ dataChClosed = FALSE
    /\ clientErr = NoErr
    /\ rdPC = "idle"
    /\ rdPkt = NoPacket
    /\ rdBody = "None"
    /\ rdErr = NoErr
    /\ invPC = "none"
    /\ muxResult = <<FALSE, NoErr>>
    /\ hist = HistInit

\* CommonRPC constructor; a subclass may set service and method
TsConstructed(svc, mth) ==
    ts = [service |-> svc, method |-> mth, source |-> <<>>,
          sourceEnded |-> FALSE, rpcData |-> <<>>, rpcDataEnded |-> FALSE,
          rpcDataErr |-> NoErr, closing |-> <<>>, srcPC |-> "none",
          thrown |-> NoErr, ops |-> 0]

\* rpcstream packets (RpcStreamPacket): Init, Ack, Data, or no body
TunPacket(body, comp, err, data) ==
    [body |-> body, componentId |-> comp, error |-> err, data |-> data]
TunInit(comp) == TunPacket("Init", comp, NoErr, <<>>)
\* an Init body whose message is nil
TunInitNil == TunPacket("InitNil", "", NoErr, <<>>)
TunAck(err) == TunPacket("Ack", "", err, <<>>)
TunData(p) == TunPacket("Data", "", NoErr, p)
TunNone == TunPacket("None", "", NoErr, <<>>)

\* no tunnel call was made yet
TunIdle ==
    tun = [oPC |-> "start", oComp |-> "", oWaitAck |-> FALSE, oSent |-> <<>>,
           oSendCalls |-> 0, oRecvs |-> 0, oRecvPkt |-> TunNone,
           oErr |-> NoErr, oRw |-> FALSE, oCloses |-> 0,
           wCalls |-> 0, wN |-> 0, wErr |-> NoErr,
           hPC |-> "start", hInitPkt |-> TunNone, hComp |-> "",
           hMux |-> FALSE, hRel |-> FALSE, hGetErr |-> NoErr, hErr |-> NoErr,
           hSent |-> <<>>, hSendCalls |-> 0, hGetterCalls |-> 0,
           hReleases |-> 0, hNested |-> FALSE, hResult |-> NoErr,
           hLog |-> <<>>, hWrites |-> 0,
           rPC |-> "idle", rBuf |-> <<>>, rSize |-> 0, rCur |-> <<>>,
           rN |-> 0, rErr |-> NoErr, rPkt |-> TunNone, rLate |-> FALSE,
           rIn |-> <<>>, rOut |-> <<>>, rCalls |-> 0]

\* NewRawMessage(data, copy) (message.go:19-21), data with capacity
\* Len(arr) and length n
NewRawMessage(arr, n, copy) ==
    raw = [arr |-> arr, len |-> n, copy |-> copy, unm |-> FALSE,
           d |-> <<>>, unmErr |-> NoErr, marshalled |-> FALSE, out |-> <<>>,
           outErr |-> NoErr, got |-> FALSE, data |-> <<>>]

Init ==
    /\ RpcInit
    /\ TsConstructed("", "")
    /\ TunIdle
    /\ NewRawMessage(<<>>, 0, FALSE)


(***************************************************************************)
(* Helpers for the two tasks' shared objects.                              *)
(***************************************************************************)
\* a HandleCallStart call (its packet passed Validate)
HStart(h) == [h EXCEPT !.startSeen = TRUE]

\* r.dataCh <- data: the channel after the send
ChanSend(ch, data) == Append(ch, data)

\* variant: a send finds room in the channel whatever it holds
ChanHasRoom_Always(ch) == TRUE

\* a send on r.dataCh can proceed without blocking
ChanHasRoom(ch) == Len(ch) < DataChCap

\* variant: the select of HandleCallData does not watch r.ctx.Done()
WakeOnCancel_Never(pc) == pc

\* a HandleCallData call blocked in its select is woken by <-r.ctx.Done()
WakeOnCancel(pc) == IF pc = "blocked" THEN "wokenCancel" ELSE pc

\* Writer.MsgSend(pkt): the packets written after the call
WriterSend(w, closed, pkt) == IF closed THEN w ELSE Append(w, pkt)
WriterSendErr(closed) == IF closed THEN ErrWriterClosed ELSE NoErr

(***************************************************************************)
(* ServerRPC.HandleCallStart (server-rpc.go:73-97)                         *)
(***************************************************************************)
\* variant: a second CallStart starts a second invocation task
StartAlreadySeen_Never(mth, svc) == FALSE

\* line 75: a call start was already recorded
StartAlreadySeen(mth, svc) == mth # "" \/ svc # ""

HandleCallStart(pkt) ==
    /\ pkt.body = "CallStart"
    /\ UNCHANGED <<ctxDone, writerClosed, written, chClosed, dataChClosed,
                   clientErr, muxResult>>
    /\ rdPC' = "returned"
    /\ rdPkt' = NoPacket
    /\ IF StartAlreadySeen(method, service)
       THEN /\ rdErr' = ErrStartOnce
            /\ hist' = HStart(hist)
            /\ UNCHANGED <<service, method, dataCh, invPC>>
       ELSE IF dataChClosed
       THEN /\ rdErr' = ErrCompleted
            /\ hist' = HStart(hist)
            /\ UNCHANGED <<service, method, dataCh, invPC>>
       ELSE /\ method' = pkt.rpcMethod
            /\ service' = pkt.rpcService
            /\ IF Len(pkt.data) # 0 /\ ~ChanHasRoom(dataCh)
               THEN \* select default: the channel is full
                    /\ rdErr' = ErrChanFull
                    /\ hist' = HStart(hist)
                    /\ UNCHANGED <<dataCh, invPC>>
               ELSE /\ dataCh' = IF Len(pkt.data) # 0
                                 THEN ChanSend(dataCh, pkt.data)
                                 ELSE dataCh
                    /\ rdErr' = NoErr
                    \* go r.invokeRPC()
                    /\ invPC' = "handler"
                    /\ hist' = [HStart(hist) EXCEPT
                                  !.nInvoked = @ + 1,
                                  !.nAccepted = @ + 1,
                                  !.sendOnClosed = @ \/ (Len(pkt.data) # 0 /\ chClosed),
                                  !.sent = IF Len(pkt.data) # 0
                                           THEN Append(@, pkt.data) ELSE @]

(***************************************************************************)
(* ServerRPC.HandleCallData (server-rpc.go:100-125)                        *)
(***************************************************************************)
\* variant: HandleCallData does not test r.dataChClosed
RejectCompleted_Never(flag) == FALSE

\* line 101: the packet arrives after the receive queue was closed
RejectCompleted(flag) == flag

\* line 105: the packet carries a payload to enqueue
CallDataHasPayload(pkt) == Len(pkt.data) # 0

\* variant: an error does not complete the call
CallDataCompletes_IgnoreError(pkt) == pkt.complete

\* lines 113-117: the packet completes the client's side of the call
CallDataCompletes(pkt) == pkt.complete \/ Len(pkt.error) # 0

\* lines 113-122, after the payload (if any) was sent on the channel
FinishCallData(pkt, h) ==
    /\ rdPC' = "returned"
    /\ rdErr' = NoErr
    /\ clientErr' = IF Len(pkt.error) # 0 THEN pkt.error ELSE clientErr
    /\ IF CallDataCompletes(pkt)
       THEN /\ dataChClosed' = TRUE
            /\ chClosed' = TRUE
            /\ hist' = [h EXCEPT !.chCloses = IF @ < 2 THEN @ + 1 ELSE @]
       ELSE /\ UNCHANGED <<dataChClosed, chClosed>>
            /\ hist' = h

HandleCallData(pkt) ==
    /\ pkt.body = "CallData"
    /\ UNCHANGED <<ctxDone, writerClosed, written, service, method, invPC,
                   muxResult>>
    /\ IF RejectCompleted(dataChClosed)
       THEN /\ rdPC' = "returned"
            /\ rdPkt' = NoPacket
            /\ rdErr' = ErrCompleted
            /\ UNCHANGED hist
            /\ UNCHANGED <<dataCh, chClosed, dataChClosed, clientErr>>
       ELSE IF ~CallDataHasPayload(pkt)
       THEN /\ UNCHANGED <<dataCh, rdPkt>>
            /\ FinishCallData(pkt, hist)
       ELSE \* select { case <-r.ctx.Done(): ...; case r.dataCh <- data: }
            \/ /\ ctxDone
               /\ rdPC' = "returned"
               /\ rdPkt' = NoPacket
               /\ rdErr' = ErrCanceled
               /\ UNCHANGED hist
               /\ UNCHANGED <<dataCh, chClosed, dataChClosed, clientErr>>
            \/ /\ ChanHasRoom(dataCh)
               /\ dataCh' = ChanSend(dataCh, pkt.data)
               /\ UNCHANGED rdPkt
               /\ FinishCallData(pkt,
                     [hist EXCEPT !.sent = Append(@, pkt.data),
                                   !.sendOnClosed = @ \/ chClosed])
            \/ /\ ~ctxDone
               /\ ~ChanHasRoom(dataCh)
               /\ rdPC' = "blocked"
               /\ rdPkt' = pkt
               /\ rdErr' = Pending
               /\ UNCHANGED hist
               /\ UNCHANGED <<dataCh, chClosed, dataChClosed, clientErr>>

\* the blocked select of HandleCallData was woken: the call continues
ResumeCallData ==
    /\ UNCHANGED otherVars
    /\ rdPC \in {"wokenSend", "wokenCancel"}
    /\ UNCHANGED <<ctxDone, writerClosed, written, service, method, invPC,
                   muxResult, dataCh, rdBody, rdPkt>>
    /\ IF rdPC = "wokenCancel"
       THEN /\ rdPC' = "returned"
            /\ rdErr' = ErrCanceled
            /\ UNCHANGED hist
            /\ UNCHANGED <<chClosed, dataChClosed, clientErr>>
       ELSE FinishCallData(rdPkt, hist)

(***************************************************************************)
(* ServerRPC.HandleCallStartResp (server-rpc.go:128-131) and               *)
(* ServerRPC.HandlePacket (server-rpc.go:55-70)                            *)
(***************************************************************************)
\* variant: a CallStartResp is taken for the start of a call
HandleCallStartResp_AsStart(pkt) ==
    /\ pkt.body = "CallStartResp"
    /\ HandleCallStart([pkt EXCEPT !.body = "CallStart", !.rpcMethod = "Echo"])

HandleCallStartResp(pkt) ==
    /\ pkt.body = "CallStartResp"
    /\ rdPC' = "returned"
    /\ rdPkt' = NoPacket
    /\ rdErr' = ErrUnrecognizedPacket
    /\ UNCHANGED hist
    /\ UNCHANGED <<ctxDone, writerClosed, written, srvVars, invPC, muxResult>>

HandlePacket(msg) ==
    /\ UNCHANGED otherVars
    /\ rdPC = "idle"
    /\ rdBody' = msg.body
    /\ IF Validate(msg) # NoErr
       THEN /\ rdPC' = "returned"
            /\ rdPkt' = NoPacket
            /\ rdErr' = Validate(msg)
            /\ UNCHANGED hist
            /\ UNCHANGED <<ctxDone, writerClosed, written, srvVars, invPC,
                           muxResult>>
       ELSE \/ HandleCallStart(msg)
            \/ HandleCallData(msg)
            \/ HandleCallStartResp(msg)
            \/ /\ msg.body \notin {"CallStart", "CallData", "CallStartResp"}
               /\ rdPC' = "returned"
               /\ rdPkt' = NoPacket
               /\ rdErr' = NoErr
               /\ UNCHANGED hist
               /\ UNCHANGED <<ctxDone, writerClosed, written, srvVars, invPC,
                              muxResult>>

\* the read pump takes the result of HandlePacket and reads the next packet
ReadNext ==
    /\ UNCHANGED otherVars
    /\ rdPC = "returned"
    /\ rdPC' = "idle"
    /\ rdPkt' = NoPacket
    /\ rdBody' = "None"
    /\ rdErr' = NoErr
    /\ UNCHANGED <<ctxDone, writerClosed, written, srvVars, invPC, muxResult,
                   hist>>

(***************************************************************************)
(* The stream handed to the handler (msg-stream.go:46-84) and the          *)
(* generated SendAndClose.  The handler runs in the invocation task.       *)
(***************************************************************************)
HandlerOp(h) == [h EXCEPT !.nHandlerOps = @ + 1]

CanHandlerOp ==
    /\ invPC = "handler"
    /\ hist.nHandlerOps < MaxHandlerOps

\* rw.WriteCallData(data, complete, err) on the server call's writer
WriteCallData(data, complete, err) ==
    written' = WriterSend(written, writerClosed,
                          NewCallDataPacket(data, complete, err))

\* variant: MsgSend does not look at the context
MsgSendWrites_Always(done) == TRUE

\* MsgStream.MsgSend: fails fast when the context is done
MsgSendWrites(done) == ~done

MsgSendCall(data) ==
    /\ UNCHANGED otherVars
    /\ IF MsgSendWrites(ctxDone)
       THEN /\ WriteCallData(data, FALSE, NoErr)
            /\ hist' = [HandlerOp(hist) EXCEPT
                          !.sendErr = WriterSendErr(writerClosed)]
       ELSE /\ UNCHANGED written
            /\ hist' = [HandlerOp(hist) EXCEPT !.sendErr = ErrCanceled]
    /\ UNCHANGED <<ctxDone, writerClosed, srvVars, rdPC, rdPkt, rdBody, rdErr, invPC,
                   muxResult>>

MsgSend(data) == CanHandlerOp /\ MsgSendCall(data)

\* MsgStream.CloseSend
CloseSendCall ==
    /\ UNCHANGED otherVars
    /\ WriteCallData(<<>>, TRUE, NoErr)
    /\ hist' = HandlerOp(hist)
    /\ UNCHANGED <<ctxDone, writerClosed, srvVars, rdPC, rdPkt, rdBody, rdErr, invPC,
                   muxResult>>

CloseSend == CanHandlerOp /\ CloseSendCall

\* MsgStream.Close: CloseSend, then the close callback
StreamCloseCall ==
    /\ UNCHANGED otherVars
    /\ WriteCallData(<<>>, TRUE, NoErr)
    /\ hist' = [HandlerOp(hist) EXCEPT !.closeCbCalls = @ + 1]
    /\ UNCHANGED <<ctxDone, writerClosed, srvVars, rdPC, rdPkt, rdBody, rdErr, invPC,
                   muxResult>>

StreamClose == CanHandlerOp /\ StreamCloseCall

\* generated SendAndClose: x.MsgSend(m), and if that succeeded x.CloseSend()
SendAndClose(data) ==
    /\ UNCHANGED otherVars
    /\ CanHandlerOp
    /\ IF MsgSendWrites(ctxDone)
       THEN /\ WriteCallData(data, FALSE, NoErr)
            /\ hist' = [HandlerOp(hist) EXCEPT
                          !.sendErr = WriterSendErr(writerClosed)]
            /\ invPC' = IF writerClosed THEN "handler" ELSE "sendAndClose"
       ELSE /\ UNCHANGED <<written, invPC>>
            /\ hist' = [HandlerOp(hist) EXCEPT !.sendErr = ErrCanceled]
    /\ UNCHANGED <<ctxDone, writerClosed, srvVars, rdPC, rdPkt, rdBody, rdErr,
                   muxResult>>

SendAndCloseFinish ==
    /\ UNCHANGED otherVars
    /\ invPC = "sendAndClose"
    /\ WriteCallData(<<>>, TRUE, NoErr)
    /\ invPC' = "handler"
    /\ UNCHANGED <<ctxDone, writerClosed, srvVars, rdPC, rdPkt, rdBody, rdErr,
                   muxResult, hist>>

\* MsgStream.MsgRecv -> rw.ReadOne on the server call: a payload from
\* r.dataCh, end of stream once it is closed and drained, or cancellation.
MsgRecv ==
    /\ UNCHANGED otherVars
    /\ CanHandlerOp
    /\ UNCHANGED <<ctxDone, writerClosed, written, service, method, chClosed,
                   dataChClosed, clientErr, rdPkt, rdBody, rdErr, invPC, muxResult>>
    /\ \/ /\ Len(dataCh) > 0
          /\ IF rdPC = "blocked"
             THEN \* the receive hands the blocked sender's payload to the channel
                  /\ dataCh' = ChanSend(Tail(dataCh), rdPkt.data)
                  /\ rdPC' = "wokenSend"
                  /\ hist' = [HandlerOp(hist) EXCEPT
                                !.received = Append(@, Head(dataCh)),
                                !.recvErr = NoErr,
                                !.sent = Append(@, rdPkt.data),
                                !.sendOnClosed = @ \/ chClosed]
             ELSE /\ dataCh' = Tail(dataCh)
                  /\ UNCHANGED rdPC
                  /\ hist' = [HandlerOp(hist) EXCEPT
                                !.received = Append(@, Head(dataCh)),
                                !.recvErr = NoErr]
       \/ /\ Len(dataCh) = 0
          /\ chClosed
          /\ hist' = [HandlerOp(hist) EXCEPT
                        !.recvErr = IF clientErr # NoErr THEN clientErr
                                    ELSE ErrEOF]
          /\ UNCHANGED <<dataCh, rdPC>>
       \/ /\ ctxDone
          /\ hist' = [HandlerOp(hist) EXCEPT !.recvErr = ErrCanceled]
          /\ UNCHANGED <<dataCh, rdPC>>

(***************************************************************************)
(* ServerRPC.invokeRPC (server-rpc.go:134-146)                             *)
(***************************************************************************)
\* r.mux.InvokeMethod returns (ok, err)
HandlerReturn(ok, err) ==
    /\ UNCHANGED otherVars
    /\ invPC = "handler"
    /\ muxResult' = <<ok, err>>
    /\ invPC' = "returned"
    /\ UNCHANGED <<ctxDone, writerClosed, written, srvVars, rdPC, rdPkt,
                   rdBody, rdErr, hist>>

\* variant: an unrecognized method is not turned into ErrUnimplemented
TerminalErr_Passthrough(ok, err) == err

\* lines 139-141: the error carried by the terminal packet
TerminalErr(ok, err) == IF err = NoErr /\ ~ok THEN ErrUnimplemented ELSE err

\* variant: the context is cancelled before the terminal packet is written
InvokeStep_CancelFirst(pc) ==
    CASE pc = "returned" -> "cancel"
      [] pc = "cancel"   -> "write"
      [] pc = "write"    -> "close"
      [] OTHER           -> "none"

\* lines 142-145: the statement invokeRPC executes next, in program order
InvokeStep(pc) ==
    CASE pc = "returned" -> "write"
      [] pc = "write"    -> "cancel"
      [] pc = "cancel"   -> "close"
      [] OTHER           -> "none"

InvokeLog(h, step) == [h EXCEPT !.invLog = Append(@, step)]

\* line 142-143: outPkt := NewCallDataPacket(nil, true, err); r.writer.MsgSend(outPkt)
InvokeWrite ==
    /\ UNCHANGED otherVars
    /\ InvokeStep(invPC) = "write"
    /\ WriteCallData(<<>>, TRUE, TerminalErr(muxResult[1], muxResult[2]))
    /\ invPC' = "write"
    /\ hist' = [InvokeLog(hist, "write") EXCEPT
                  !.termPkt = NewCallDataPacket(<<>>, TRUE,
                                 TerminalErr(muxResult[1], muxResult[2]))]
    /\ UNCHANGED <<ctxDone, writerClosed, srvVars, rdPC, rdPkt, rdBody, rdErr,
                   muxResult>>

\* line 144: r.ctxCancel()
InvokeCancel ==
    /\ UNCHANGED otherVars
    /\ InvokeStep(invPC) = "cancel"
    /\ ctxDone' = TRUE
    /\ rdPC' = WakeOnCancel(rdPC)
    /\ invPC' = "cancel"
    /\ hist' = InvokeLog(hist, "cancel")
    /\ UNCHANGED <<writerClosed, written, srvVars, rdPkt, rdBody, rdErr, muxResult>>

\* line 145: r.writer.Close()
InvokeClose ==
    /\ UNCHANGED otherVars
    /\ InvokeStep(invPC) = "close"
    /\ writerClosed' = TRUE
    /\ invPC' = "close"
    /\ hist' = [InvokeLog(hist, "close") EXCEPT
                  !.closeLog = Append(@, "invokeRPC")]
    /\ UNCHANGED <<ctxDone, written, srvVars, rdPC, rdPkt, rdBody, rdErr, muxResult>>

(***************************************************************************)
(* ServerRPC.Close (server-rpc.go:150-156) and the parent context          *)
(***************************************************************************)
\* line 152: Close closes the writer itself
CloseClosesWriter(svc) == svc = ""

\* not concurrency safe with HandlePacket: called between HandlePacket calls
Close ==
    /\ UNCHANGED otherVars
    /\ rdPC = "idle"
    /\ hist.nCloseCalls < MaxCloseCalls
    /\ ctxDone' = TRUE
    /\ writerClosed' = (writerClosed \/ CloseClosesWriter(service))
    /\ hist' = [hist EXCEPT
                  !.nCloseCalls = @ + 1,
                  !.closeLog = IF CloseClosesWriter(service)
                               THEN Append(@, "Close") ELSE @]
    /\ UNCHANGED <<written, srvVars, rdPC, rdPkt, rdBody, rdErr, invPC, muxResult>>

\* NewServerRPC line 44: r.ctx is a child of the caller's context
ParentCancel ==
    /\ UNCHANGED otherVars
    /\ ~ctxDone
    /\ ctxDone' = TRUE
    /\ rdPC' = WakeOnCancel(rdPC)
    /\ UNCHANGED <<writerClosed, written, srvVars, rdPkt, rdBody, rdErr, invPC,
                   muxResult, hist>>

(***************************************************************************)
(* Specification of the server call.                                       *)
(***************************************************************************)
Next ==
    \/ \E msg \in InPackets(Len(hist.sent) + 1) : HandlePacket(msg)
    \/ ResumeCallData
    \/ ReadNext
    \/ \E data \in HandlerMsgs : MsgSend(data)
    \/ MsgRecv
    \/ CloseSend
    \/ StreamClose
    \/ \E data \in HandlerMsgs : SendAndClose(data)
    \/ SendAndCloseFinish
    \/ \E ok \in BOOLEAN, err \in {NoErr} \cup HandlerErrs : HandlerReturn(ok, err)
    \/ InvokeWrite
    \/ InvokeCancel
    \/ InvokeClose
    \/ Close
    \/ ParentCancel

Spec == Init /\ [][Next]_vars

\* The handler returns, and the invocation and packet-handling tasks make
\* progress once they can (goroutine scheduling).
FairSpec ==
    /\ Spec
    /\ WF_vars(\E ok \in BOOLEAN, err \in {NoErr} \cup HandlerErrs :
                  HandlerReturn(ok, err))
    /\ WF_vars(SendAndCloseFinish)
    /\ WF_vars(InvokeWrite)
    /\ WF_vars(InvokeCancel)
    /\ WF_vars(InvokeClose)
    /\ WF_vars(ResumeCallData)
    /\ WF_vars(ReadNext)

(***************************************************************************)
(* Specification of a handler that only sends on and closes its stream:    *)
(* the call is started by one CallStart without inline data, the handler   *)
(* performs up to MaxStreamOps operations of MsgSend, CloseSend and Close. *)
(***************************************************************************)
StreamStartPackets ==
    {Packet("CallStart", "svc", "Echo", <<>>, FALSE, FALSE, NoErr)}

CanStreamOp ==
    /\ invPC = "handler"
    /\ hist.nHandlerOps < MaxStreamOps

HandlerMsgSend(data) == CanStreamOp /\ MsgSendCall(data)
HandlerCloseSend == CanStreamOp /\ CloseSendCall
HandlerStreamClose == CanStreamOp /\ StreamCloseCall

StreamNext ==
    \/ \E msg \in StreamStartPackets : HandlePacket(msg)
    \/ ReadNext
    \/ \E data \in HandlerMsgs : HandlerMsgSend(data)
    \/ HandlerCloseSend
    \/ HandlerStreamClose
    \/ \E ok \in BOOLEAN, err \in {NoErr} \cup HandlerErrs : HandlerReturn(ok, err)
    \/ InvokeWrite
    \/ InvokeCancel
    \/ InvokeClose
    \/ Close
    \/ ParentCancel

StreamSpec == Init /\ [][StreamNext]_vars

(***************************************************************************)
(* TypeScript CommonRPC (msg-stream.go:95-289).  The object runs on one    *)
(* thread: a call runs until it returns or reaches an await at which it    *)
(* is suspended.                                                           *)
(***************************************************************************)
ErrUnexpectedStart(svc, mth) == "unexpected call start: " \o svc \o "/" \o mth
ErrStartBeforeData == "call start must be sent before call data"
ErrSourceFailed == "source failed"

\* an optional Uint8Array argument: <<defined, bytes>>
TsUndefined == <<FALSE, <<>>>>
TsPayloads == {TsUndefined, <<TRUE, <<>>>>, <<TRUE, <<7>>>>}

\* pushable: a value pushed after end() is dropped
PushableDrops(ended) == ended
Push(q, ended, v) == IF PushableDrops(ended) THEN q ELSE Append(q, v)

TsCallCancel == Packet("CallCancel", "", "", <<>>, FALSE, FALSE, NoErr)

\* the packet writeCallData(data, complete, error) builds (lines 137-142)
TsCallData(arg, complete, error) ==
    Packet("CallData", "", "", arg[2], arg[1] /\ Len(arg[2]) = 0, complete, error)

TsIsTerminal(pkt) ==
    \/ pkt.body = "CallCancel"
    \/ pkt.body = "CallData" /\ (pkt.complete \/ pkt.error # NoErr)

\* writePacket (lines 174-176)
writePacket(t, pkt) == [t EXCEPT !.source = Push(@, t.sourceEnded, pkt)]

\* close(err) up to its await: writeCallCancel has pushed the packet
closeCall(t, err) ==
    [writePacket(t, TsCallCancel) EXCEPT !.closing = Append(@, err)]

TsOp(t) == [t EXCEPT !.ops = @ + 1]
CanTsOp == ts.ops < MaxTsOps

\* writeCallData(data, complete, error) called by the user (lines 132-149)
writeCallData(arg, complete, error) ==
    /\ CanTsOp
    /\ ts' = writePacket(TsOp(ts), TsCallData(arg, complete, error))
    /\ UNCHANGED <<rpcVars, tunVars, msgVars>>

\* writeCallDataFromSource(dataSource) is called (lines 162-171)
writeCallDataFromSource ==
    /\ CanTsOp
    /\ ts.srcPC = "none"
    /\ ts' = [TsOp(ts) EXCEPT !.srcPC = "running"]
    /\ UNCHANGED <<rpcVars, tunVars, msgVars>>

\* the data source yields a value: await this.writeCallData(data)
SourceYield(bytes) ==
    /\ CanTsOp
    /\ ts.srcPC = "running"
    /\ ts' = writePacket(TsOp(ts), TsCallData(<<TRUE, bytes>>, FALSE, NoErr))
    /\ UNCHANGED <<rpcVars, tunVars, msgVars>>

\* the data source ends: await this.writeCallData(undefined, true)
SourceEnd ==
    /\ ts.srcPC = "running"
    /\ ts' = [writePacket(ts, TsCallData(TsUndefined, TRUE, NoErr))
                 EXCEPT !.srcPC = "done"]
    /\ UNCHANGED <<rpcVars, tunVars, msgVars>>

\* the data source throws: this.close(err)
SourceThrow ==
    /\ ts.srcPC = "running"
    /\ ts' = [closeCall(ts, ErrSourceFailed) EXCEPT !.srcPC = "done"]
    /\ UNCHANGED <<rpcVars, tunVars, msgVars>>

\* variant: an empty buffer is taken for the absence of a payload
pushRpcData_IgnoreZero(t, data, dataIsZero) ==
    IF Len(data) = 0 THEN t
    ELSE [t EXCEPT !.rpcData = Push(@, t.rpcDataEnded, data)]

\* pushRpcData(data, dataIsZero) (lines 217-229)
pushRpcData(t, data, dataIsZero) ==
    IF dataIsZero
    THEN [t EXCEPT !.rpcData = Push(@, t.rpcDataEnded, <<>>)]
    ELSE IF Len(data) = 0
    THEN t
    ELSE [t EXCEPT !.rpcData = Push(@, t.rpcDataEnded, data)]

\* this._rpcDataSource.end(err)
rpcDataEnd(t, err) ==
    IF t.rpcDataEnded THEN t
    ELSE [t EXCEPT !.rpcDataEnded = TRUE, !.rpcDataErr = err]

\* handleCallData (lines 232-243) once service and method are set
handleCallData(t, pkt) ==
    IF pkt.error # NoErr
    THEN rpcDataEnd(pushRpcData(t, pkt.data, pkt.dataIsZero), pkt.error)
    ELSE IF pkt.complete
    THEN rpcDataEnd(pushRpcData(t, pkt.data, pkt.dataIsZero), NoErr)
    ELSE pushRpcData(t, pkt.data, pkt.dataIsZero)

\* variant: handleCallData does not test service and method
TsHandleThrows_NoStartCheck(t, pkt) ==
    IF pkt.body = "CallStart"
    THEN ErrUnexpectedStart(pkt.rpcService, pkt.rpcMethod)
    ELSE NoErr

\* what handling the packet throws (handleCallStart 209-214, line 233)
TsHandleThrows(t, pkt) ==
    IF pkt.body = "CallStart"
    THEN ErrUnexpectedStart(pkt.rpcService, pkt.rpcMethod)
    ELSE IF pkt.body = "CallData" /\ (t.service = "" \/ t.method = "")
    THEN ErrStartBeforeData
    ELSE NoErr

\* packets a peer may send
TsInPackets ==
    {Packet("CallStart", "svc", "Echo", <<>>, FALSE, FALSE, NoErr),
     Packet("CallCancel", "", "", <<>>, FALSE, FALSE, NoErr)}
    \cup {TsCallData(a, c, e) :
             a \in TsPayloads, c \in BOOLEAN, e \in {NoErr} \cup ClientErrs}

\* handlePacket(packet) (lines 188-206)
handlePacket(pkt) ==
    /\ CanTsOp
    /\ ts' = IF TsHandleThrows(ts, pkt) # NoErr
             THEN [closeCall(TsOp(ts), TsHandleThrows(ts, pkt))
                     EXCEPT !.thrown = TsHandleThrows(ts, pkt)]
             ELSE IF pkt.body = "CallData"
             THEN [handleCallData(TsOp(ts), pkt) EXCEPT !.thrown = NoErr]
             ELSE [TsOp(ts) EXCEPT !.thrown = NoErr]
    /\ UNCHANGED <<rpcVars, tunVars, msgVars>>

\* close(err) called by the user (lines 246-248)
close(err) ==
    /\ CanTsOp
    /\ ts' = closeCall(TsOp(ts), err)
    /\ UNCHANGED <<rpcVars, tunVars, msgVars>>

\* a suspended close() resumes in its finally block (lines 249-253)
closeFinally ==
    /\ ts.closing # <<>>
    /\ ts' = [rpcDataEnd(ts, Head(ts.closing)) EXCEPT
                 !.sourceEnded = TRUE,
                 !.closing = Tail(@)]
    /\ UNCHANGED <<rpcVars, tunVars, msgVars>>

TsInit ==
    /\ RpcInit
    /\ TunIdle
    /\ NewRawMessage(<<>>, 0, FALSE)
    /\ \E svc \in {"", "svc"} : TsConstructed(svc, IF svc = "" THEN "" ELSE "Echo")

TsNext ==
    \/ \E a \in TsPayloads, c \in BOOLEAN, e \in {NoErr} \cup ClientErrs :
          writeCallData(a, c, e)
    \/ writeCallDataFromSource
    \/ \E b \in {<<>>, <<7>>} : SourceYield(b)
    \/ SourceEnd
    \/ SourceThrow
    \/ \E pkt \in TsInPackets : handlePacket(pkt)
    \/ \E err \in {NoErr} \cup ClientErrs : close(err)
    \/ closeFinally

TsSpec == TsInit /\ [][TsNext]_vars

(***************************************************************************)
(* rpcstream: OpenRpcStream (part_000:31-73), HandleRpcStream (106-154)    *)
(* and RpcStreamReadWriter.Write (170-183).                                *)
(***************************************************************************)
ErrCallFailed == "call failed"
ErrSendFailed == "send failed"
ErrRecvFailed == "recv failed"
ErrExpectedAck == "expected ack packet"
ErrExpectedInit == "expected init packet"
ErrEmptyComponent == "invalid init packet: empty component id"
ErrNoServer == "no server for that component"
ErrGetter == "getter failed"

ComponentIDs == {"", "comp"}
SendErrs == {NoErr, ErrSendFailed}
\* byte slices given to Write
TunPayloads == {<<>>, <<1>>, <<1, 2>>}
\* what Recv may return to the opener waiting for the Ack
OpenerInPackets ==
    {TunAck(NoErr), TunAck(ErrNoServer), TunData(<<1>>), TunInit("comp"), TunNone}
\* what Recv may return to the acceptor as the first packet
AcceptorInPackets ==
    {TunInit("comp"), TunInit(""), TunInitNil, TunAck(NoErr), TunData(<<1>>),
     TunNone}

\* stream.Send(pkt) with result err: the packets sent after the call
StreamSend(sent, pkt, err) == IF err = NoErr THEN Append(sent, pkt) ELSE sent

\* OpenRpcStream lines 33-36: rpcCaller(ctx)
OpenRpcStream(comp, waitAck, callErr) ==
    /\ tun.oPC = "start"
    /\ tun' = IF callErr # NoErr
              THEN [tun EXCEPT !.oPC = "done", !.oComp = comp,
                               !.oWaitAck = waitAck, !.oErr = callErr]
              ELSE [tun EXCEPT !.oPC = "opened", !.oComp = comp,
                               !.oWaitAck = waitAck]
    /\ UNCHANGED <<rpcVars, tsVars, msgVars>>

\* line 52: the opener waits for the acknowledgment
OpenWaits(waitAck) == waitAck

\* variant: a failed OpenRpcStream leaves the outer stream open
CloseOnFailure_Never(err) == FALSE

\* lines 46-49 and 64-67: rpcStream.Close() before the error is returned
CloseOnFailure(err) == err # NoErr

\* lines 39-49: send the Init packet
OpenSendInit(sendErr) ==
    /\ tun.oPC = "opened"
    /\ tun' = [tun EXCEPT
                 !.oSent = StreamSend(@, TunInit(tun.oComp), sendErr),
                 !.oSendCalls = @ + 1,
                 !.oCloses = IF CloseOnFailure(sendErr) THEN @ + 1 ELSE @,
                 !.oErr = sendErr,
                 !.oRw = sendErr = NoErr /\ ~OpenWaits(tun.oWaitAck),
                 !.oPC = IF sendErr = NoErr /\ OpenWaits(tun.oWaitAck)
                         THEN "waitAck" ELSE "done"]
    /\ UNCHANGED <<rpcVars, tsVars, msgVars>>

\* variant: the error carried by the Ack is ignored
AckResult_IgnoreError(pkt) ==
    IF pkt.body = "Ack" THEN NoErr ELSE ErrExpectedAck

\* lines 55-62: the error the received packet gives
AckResult(pkt) ==
    IF pkt.body = "Ack"
    THEN IF pkt.error # "" THEN "remote: " \o pkt.error ELSE NoErr
    ELSE ErrExpectedAck

\* lines 53-67: receive one packet; recvErr is the error of Recv
OpenRecvAck(pkt, recvErr) ==
    /\ tun.oPC = "waitAck"
    /\ LET err == IF recvErr # NoErr THEN recvErr ELSE AckResult(pkt)
       IN tun' = [tun EXCEPT
                    !.oRecvs = @ + 1,
                    !.oRecvPkt = IF recvErr # NoErr THEN TunNone ELSE pkt,
                    !.oErr = err,
                    !.oCloses = IF CloseOnFailure(err) THEN @ + 1 ELSE @,
                    !.oRw = err = NoErr,
                    !.oPC = "done"]
    /\ UNCHANGED <<rpcVars, tsVars, msgVars>>

\* variant: Write sends the slice in frames of one byte
Write_Split(p, sendErr) ==
    IF Len(p) = 0 THEN [n |-> 0, err |-> NoErr, sends |-> 0, frames |-> <<>>]
    ELSE IF sendErr # NoErr
    THEN [n |-> 0, err |-> sendErr, sends |-> 1, frames |-> <<>>]
    ELSE [n |-> Len(p), err |-> NoErr, sends |-> Len(p),
          frames |-> [i \in 1..Len(p) |-> TunData(<<p[i]>>)]]

\* RpcStreamReadWriter.Write(p) (lines 170-183), sendErr the result of Send:
\* the values returned, the Send calls made and the frames sent
Write(p, sendErr) ==
    IF Len(p) = 0 THEN [n |-> 0, err |-> NoErr, sends |-> 0, frames |-> <<>>]
    ELSE IF sendErr # NoErr
    THEN [n |-> 0, err |-> sendErr, sends |-> 1, frames |-> <<>>]
    ELSE [n |-> Len(p), err |-> NoErr, sends |-> 1, frames |-> <<TunData(p)>>]

\* a Write on the read/writer OpenRpcStream returned
OpenerWrite(p, sendErr) ==
    /\ tun.oRw
    /\ tun.wCalls < MaxTunWrites
    /\ tun' = [tun EXCEPT
                 !.oSent = @ \o Write(p, sendErr).frames,
                 !.oSendCalls = @ + Write(p, sendErr).sends,
                 !.wCalls = @ + 1,
                 !.wN = Write(p, sendErr).n,
                 !.wErr = Write(p, sendErr).err]
    /\ UNCHANGED <<rpcVars, tsVars, msgVars>>

\* variant: an Init with an empty component id is accepted
InitError_AcceptEmpty(pkt) ==
    IF pkt.body # "Init" THEN ErrExpectedInit ELSE NoErr

\* lines 112-119: the error the first packet gives
InitError(pkt) ==
    IF pkt.body # "Init" THEN ErrExpectedInit
    ELSE IF pkt.componentId = "" THEN ErrEmptyComponent
    ELSE NoErr

HLog(t, ev) == [t EXCEPT !.hLog = Append(@, ev)]

\* HandleRpcStream lines 108-119: receive and check the Init packet
HandleRpcStream(pkt, recvErr) ==
    /\ tun.hPC = "start"
    /\ LET err == IF recvErr # NoErr THEN recvErr ELSE InitError(pkt)
       IN tun' = [tun EXCEPT
                    !.hInitPkt = IF recvErr # NoErr THEN TunNone ELSE pkt,
                    !.hComp = IF err = NoErr THEN pkt.componentId ELSE "",
                    !.hResult = err,
                    !.hPC = IF err = NoErr THEN "getter" ELSE "done"]
    /\ UNCHANGED <<rpcVars, tsVars, msgVars>>

\* variant: a missing mux is not an error
ResolveErr_NoCheck(mux, err) == err

\* lines 124-126: the resolution error
ResolveErr(mux, err) == IF err = NoErr /\ ~mux THEN ErrNoServer ELSE err

\* variant: the release callback is deferred whenever there is one
DefersRelease_AnyMux(mux, rel) == rel

\* lines 127-129: the release callback is deferred
DefersRelease(mux, rel) == mux /\ rel

\* lines 122-129: the getter returns (mux, muxRel, err)
HandleGetter(mux, rel, err) ==
    /\ tun.hPC = "getter"
    /\ tun' = [HLog(tun, "getter") EXCEPT
                 !.hMux = mux, !.hRel = rel, !.hGetErr = err,
                 !.hErr = ResolveErr(mux, err),
                 !.hGetterCalls = @ + 1,
                 !.hPC = "ack"]
    /\ UNCHANGED <<rpcVars, tsVars, msgVars>>

\* the function returns: the deferred release runs
HandleReturn(t, err) ==
    IF DefersRelease(t.hMux, t.hRel)
    THEN [HLog(t, "release") EXCEPT
            !.hReleases = @ + 1, !.hResult = err, !.hPC = "done"]
    ELSE [t EXCEPT !.hResult = err, !.hPC = "done"]

\* lines 132-152: send the Ack, return on an error, else start the nested
\* ServerRPC and its read pump
HandleSendAck(sendErr) ==
    /\ tun.hPC = "ack"
    /\ LET t == [HLog(tun, "ack") EXCEPT
                   !.hSent = StreamSend(@, TunAck(tun.hErr), sendErr),
                   !.hSendCalls = @ + 1]
       IN tun' = IF tun.hErr # NoErr THEN HandleReturn(t, tun.hErr)
                 ELSE IF sendErr # NoErr THEN HandleReturn(t, sendErr)
                 ELSE [HLog(t, "nested") EXCEPT
                         !.hNested = TRUE, !.hPC = "nested"]
    /\ UNCHANGED <<rpcVars, tsVars, msgVars>>

\* the nested session writes on its read/writer
NestedWrite(p, sendErr) ==
    /\ tun.hPC = "nested"
    /\ tun.hWrites < MaxTunWrites
    /\ tun' = [HLog(tun, "write") EXCEPT
                 !.hSent = @ \o Write(p, sendErr).frames,
                 !.hSendCalls = @ + Write(p, sendErr).sends,
                 !.hWrites = @ + 1]
    /\ UNCHANGED <<rpcVars, tsVars, msgVars>>

\* line 153: serverRPC.Wait returns err, the nested session has ended
NestedEnd(err) ==
    /\ tun.hPC = "nested"
    /\ tun' = HandleReturn(HLog(tun, "nestedEnd"), err)
    /\ UNCHANGED <<rpcVars, tsVars, msgVars>>

TunNext ==
    \/ \E comp \in ComponentIDs, waitAck \in BOOLEAN,
          callErr \in {NoErr, ErrCallFailed} :
          OpenRpcStream(comp, waitAck, callErr)
    \/ \E sendErr \in SendErrs : OpenSendInit(sendErr)
    \/ \E pkt \in OpenerInPackets, recvErr \in {NoErr, ErrRecvFailed} :
          OpenRecvAck(pkt, recvErr)
    \/ \E p \in TunPayloads, sendErr \in SendErrs : OpenerWrite(p, sendErr)
    \/ \E pkt \in AcceptorInPackets, recvErr \in {NoErr, ErrRecvFailed} :
          HandleRpcStream(pkt, recvErr)
    \/ \E mux \in BOOLEAN, rel \in BOOLEAN, err \in {NoErr, ErrGetter} :
          HandleGetter(mux, rel, err)
    \/ \E sendErr \in SendErrs : HandleSendAck(sendErr)
    \/ \E p \in TunPayloads, sendErr \in SendErrs : NestedWrite(p, sendErr)
    \/ \E err \in {NoErr, ErrCanceled} : NestedEnd(err)

TunSpec == Init /\ [][TunNext]_vars

(***************************************************************************)
(* RpcStreamReadWriter.Read (part_000:186-232) on the read/writer that     *)
(* OpenRpcStream returned.  The bytes of the Data frames are numbered in   *)
(* the order the remote sends them.                                        *)
(***************************************************************************)
Min(a, b) == IF a < b THEN a ELSE b

\* len(readBuf): the room left in p
ReadRoom(t) == t.rSize - t.rN

\* the Data frame of sz bytes the remote sends after k payload bytes
DataFrame(k, sz) == TunData([i \in 1..sz |-> k + i])

\* what Recv may return to a Read call after k payload bytes
ReadInPackets(k) ==
    {DataFrame(k, sz) : sz \in 0..Min(MaxFrame, MaxTunBytes - k)}
    \cup {TunAck(NoErr), TunAck(ErrNoServer)}

\* Read(p) is called with len(p) = size
Read(size) ==
    /\ tun.oRw
    /\ tun.rPC = "idle"
    /\ tun.rCalls < MaxReads
    /\ tun' = [tun EXCEPT !.rPC = "loop", !.rSize = size, !.rCur = <<>>,
                          !.rN = 0, !.rErr = NoErr, !.rPkt = TunNone,
                          !.rCalls = @ + 1]
    /\ UNCHANGED <<rpcVars, tsVars, msgVars>>

\* return n, err
ReadReturn(t, err) ==
    [t EXCEPT !.rPC = "idle", !.rErr = err, !.rOut = @ \o t.rCur,
              !.rCur = <<>>]

\* lines 192-193 and 228-229: rn, err = r.buf.Read(readBuf)
ReadFromBuf(t) ==
    LET rn == Min(Len(t.rBuf), ReadRoom(t))
    IN [t EXCEPT !.rCur = @ \o SubSeq(t.rBuf, 1, rn),
                 !.rBuf = SubSeq(@, rn + 1, Len(@)),
                 !.rN = @ + rn]

\* variant: the part of a frame that does not fit in p is dropped
CopyData_DropRest(t, data) ==
    LET rn == Min(Len(data), ReadRoom(t))
    IN [t EXCEPT !.rCur = @ \o SubSeq(data, 1, rn),
                 !.rN = @ + rn]

\* lines 216-229: copy data to readBuf, buffer what does not fit
CopyData(t, data) ==
    LET rn == Min(Len(data), ReadRoom(t))
    IN [t EXCEPT !.rCur = @ \o SubSeq(data, 1, rn),
                 !.rBuf = @ \o SubSeq(data, rn + 1, Len(data)),
                 !.rN = @ + rn]

\* variant: Read goes on receiving until p is full
StopsAfterBytes_Never(n) == FALSE

\* lines 195-198: bytes were read to p already, return now
StopsAfterBytes(n) == n # 0

\* variant: the error of an Ack is not looked at
AckError_Ignored(pkt) == NoErr

\* line 206: pkt.GetAck().GetError()
AckError(pkt) == IF pkt.body = "Ack" THEN pkt.error ELSE NoErr

\* line 210: pkt.GetData()
GetData(pkt) == IF pkt.body = "Data" THEN pkt.data ELSE <<>>

\* lines 200-225: Recv returned (pkt, recvErr)
ReadRecv(t, pkt, recvErr) ==
    LET got == [t EXCEPT !.rPkt = IF recvErr # NoErr THEN TunNone ELSE pkt,
                         !.rLate = @ \/ t.rN # 0,
                         !.rIn = IF recvErr # NoErr THEN @
                                 ELSE @ \o GetData(pkt)]
    IN IF recvErr # NoErr THEN ReadReturn(got, recvErr)
       ELSE IF AckError(pkt) # "" THEN ReadReturn(got, AckError(pkt))
       ELSE IF Len(GetData(pkt)) = 0 THEN got
       ELSE CopyData(got, GetData(pkt))

\* one evaluation of the loop condition and, if it holds, of the loop body
\* (lines 188-230); pkt and recvErr are what Recv returns if it is called
ReadLoop(pkt, recvErr) ==
    /\ tun.rPC = "loop"
    /\ tun' = IF ReadRoom(tun) = 0 THEN ReadReturn(tun, NoErr)
              ELSE IF Len(tun.rBuf) # 0 THEN ReadFromBuf(tun)
              ELSE IF StopsAfterBytes(tun.rN) THEN ReadReturn(tun, NoErr)
              ELSE ReadRecv(tun, pkt, recvErr)
    /\ UNCHANGED <<rpcVars, tsVars, msgVars>>

RwReadNext ==
    \/ \E comp \in ComponentIDs, waitAck \in BOOLEAN,
          callErr \in {NoErr, ErrCallFailed} :
          OpenRpcStream(comp, waitAck, callErr)
    \/ \E sendErr \in SendErrs : OpenSendInit(sendErr)
    \/ \E pkt \in OpenerInPackets, recvErr \in {NoErr, ErrRecvFailed} :
          OpenRecvAck(pkt, recvErr)
    \/ \E size \in 0..MaxReadBuf : Read(size)
    \/ \E pkt \in ReadInPackets(Len(tun.rIn)),
          recvErr \in {NoErr, ErrRecvFailed} : ReadLoop(pkt, recvErr)

ReadSpec == Init /\ [][RwReadNext]_vars

(***************************************************************************)
(* RawMessage (message.go:10-57).  A slice is the array behind it and its  *)
(* length; the capacity is the length of the array.                        *)
(***************************************************************************)
RawBytes == {1, 2}

\* the byte strings of at most n bytes
ByteStrings(n) == UNION {[1..k -> RawBytes] : k \in 0..n}

\* m.data
RawData(m) == SubSeq(m.arr, 1, m.len)

\* copy(dst, src) into the first Len(src) bytes of the array
CopyInto(arr, src) == src \o SubSeq(arr, Len(src) + 1, Len(arr))

\* variant: the slice is not cut to the length of the new data
Reslice_KeepLen(m, n) == IF m.len > n THEN m ELSE [m EXCEPT !.len = n]

\* line 34: m.data = m.data[:n]
Reslice(m, n) == [m EXCEPT !.len = n]

\* lines 31-42
SetData(m, data) ==
    IF m.copy
    THEN IF Len(m.arr) >= Len(data)
         THEN [Reslice(m, Len(data)) EXCEPT !.arr = CopyInto(@, data)]
         ELSE [m EXCEPT !.arr = data, !.len = Len(data)]
    ELSE [m EXCEPT !.arr = data, !.len = Len(data)]

\* lines 54-57
UnmarshalVT(data) ==
    /\ raw' = [SetData(raw, data) EXCEPT !.unm = TRUE, !.d = data,
                                        !.unmErr = NoErr,
                                        !.marshalled = FALSE, !.got = FALSE]
    /\ UNCHANGED <<rpcVars, tsVars, tunVars>>

\* lines 44-52: the bytes returned are those of m.data in both branches
MarshalVT ==
    /\ ~raw.marshalled
    /\ raw' = [raw EXCEPT !.marshalled = TRUE,
                          !.out = IF ~raw.copy THEN RawData(raw)
                                  ELSE CopyInto([i \in 1..raw.len |-> 0],
                                                RawData(raw)),
                          !.outErr = NoErr]
    /\ UNCHANGED <<rpcVars, tsVars, tunVars>>

\* lines 24-26
RawGetData ==
    /\ ~raw.got
    /\ raw' = [raw EXCEPT !.got = TRUE, !.data = RawData(raw)]
    /\ UNCHANGED <<rpcVars, tsVars, tunVars>>

\* a message with any prior content, in either mode
RawInit ==
    /\ RpcInit
    /\ TsConstructed("", "")
    /\ TunIdle
    /\ \E arr \in ByteStrings(MaxRawLen), copy \in BOOLEAN :
          \E n \in 0..Len(arr) : NewRawMessage(arr, n, copy)

RawNext ==
    \/ \E data \in ByteStrings(MaxRawLen) : UnmarshalVT(data)
    \/ MarshalVT
    \/ RawGetData

RawSpec == RawInit /\ [][RawNext]_vars

(***************************************************************************)
(* Properties of the server call.                                          *)
(***************************************************************************)
\* packets that may be handed to HandlePacket in the current state
NowPackets == InPackets(Len(hist.sent) + 1)
NowCallStarts == {p \in NowPackets : p.body = "CallStart"}
NowCallDatas == {p \in NowPackets : p.body = "CallData"}

\* this step is a call of HandlePacket
IsCall == rdPC = "idle" /\ rdPC' # "idle"

\* the terminal packets among the packets written
TerminalsWritten == {i \in 1..Len(written) : IsTerminal(written[i])}

IsPrefix(a, b) == Len(a) <= Len(b) /\ a = SubSeq(b, 1, Len(a))

\* C1 (exactly one start): the first valid CallStart handled on a stream
\* records (service, method) and starts exactly one handler invocation; every
\* later CallStart returns an error, leaves service, method and the receive
\* queue unchanged and starts no invocation; no invocation starts without an
\* accepted CallStart.
C1_ExactlyOneStart ==
    /\ [](hist.nInvoked <= hist.nAccepted /\ hist.nAccepted <= 1)
    /\ [][IsCall => \A msg \in NowCallStarts :
            (HandlePacket(msg) /\ Validate(msg) = NoErr) =>
               IF ~hist.startSeen
               THEN /\ rdErr' = NoErr
                    /\ service' = msg.rpcService
                    /\ method' = msg.rpcMethod
                    /\ hist.nInvoked = 0 /\ hist'.nInvoked = 1
               ELSE /\ rdErr' # NoErr
                    /\ UNCHANGED <<service, method, dataCh>>
                    /\ hist'.nInvoked = hist.nInvoked]_vars

\* C2 (data before start): a CallData handled before any CallStart was
\* accepted returns an error, enqueues nothing and does not close the queue.
C2_DataBeforeStartRejected ==
    [][IsCall => \A msg \in NowCallDatas :
          (HandlePacket(msg) /\ hist.nAccepted = 0) =>
             /\ rdErr' # NoErr
             /\ UNCHANGED <<dataCh, chClosed, dataChClosed>>]_vars

\* C3 (empty-message preservation): a CallStart or CallData handled
\* successfully with dataIsZero set and zero-length data enqueues one
\* zero-length payload; with empty data and dataIsZero unset it enqueues
\* nothing.
C3_EmptyMessagePreserved ==
    [][IsCall => \A msg \in NowCallStarts \cup NowCallDatas :
          (HandlePacket(msg) /\ rdErr' = NoErr /\ Len(msg.data) = 0) =>
             IF msg.dataIsZero
             THEN dataCh' = Append(dataCh, <<>>)
             ELSE dataCh' = dataCh]_vars

\* C4 (terminal uniqueness): the server writes at most one terminal packet
\* on the call's writer, and exactly one once the invocation task finished.
C4_OneTerminalPacket ==
    /\ Cardinality(TerminalsWritten) <= 1
    /\ (invPC = "close" => Cardinality(TerminalsWritten) = 1)

\* C5 (order preservation into the handler): the payloads the handler
\* dequeued followed by those still queued are the payloads of the packets
\* handled successfully, in the order handled, the inline payload of the
\* accepted CallStart being the first of them; end of stream is observed only
\* once every payload sent was dequeued.
C5_OrderPreserved ==
    /\ [](hist.sent = hist.received \o dataCh)
    /\ [](hist.recvErr \in {ErrEOF} \cup ClientErrs =>
             chClosed /\ hist.received = hist.sent)
    /\ [][IsCall => \A msg \in NowCallStarts \cup NowCallDatas :
            HandlePacket(msg) =>
               IF rdErr' = NoErr /\ Len(msg.data) # 0
               THEN /\ hist'.sent = Append(hist.sent, msg.data)
                    /\ (msg.body = "CallStart" => hist'.sent[1] = msg.data)
               ELSE hist'.sent = hist.sent]_vars

\* C6 (invocation task epilogue): after the handler returned the invocation
\* task writes the terminal CallData (complete, carrying the handler error),
\* then cancels the context, then closes the writer, each exactly once and in
\* this order.
C6_InvokeEpilogueOrder ==
    /\ IsPrefix(hist.invLog, <<"write", "cancel", "close">>)
    /\ (invPC = "close" => hist.invLog = <<"write", "cancel", "close">>)
    /\ (invPC \in {"none", "handler", "sendAndClose", "returned"}
           => hist.invLog = <<>>)
    /\ (hist.invLog # <<>> =>
           /\ hist.termPkt.body = "CallData"
           /\ hist.termPkt.complete
           /\ Len(hist.termPkt.data) = 0
           /\ (muxResult[2] # NoErr => hist.termPkt.error = muxResult[2]))

C6_Witness ==
    /\ invPC = "close"
    /\ muxResult[2] # NoErr
    /\ hist.invLog = <<"write", "cancel", "close">>
    /\ ctxDone /\ writerClosed
    /\ written # <<>> /\ written[Len(written)].error = muxResult[2]

\* C7 (terminal error mapping): (false, nil) from the mux gives
\* ErrUnimplemented, a non-nil error is carried as is whatever the recognized
\* flag, and (true, nil) gives an empty error.
C7_TerminalErrorMapping ==
    hist.invLog # <<>> =>
        /\ (muxResult = <<FALSE, NoErr>> => hist.termPkt.error = ErrUnimplemented)
        /\ (muxResult[2] # NoErr => hist.termPkt.error = muxResult[2])
        /\ (muxResult = <<TRUE, NoErr>> => hist.termPkt.error = NoErr)
        /\ (~writerClosed /\ invPC = "write" =>
               written # <<>> /\ written[Len(written)] = hist.termPkt)

C7_Witness ==
    /\ hist.invLog # <<>>
    /\ muxResult = <<FALSE, NoErr>>
    /\ written # <<>>
    /\ written[Len(written)].error = ErrUnimplemented

\* the part of C8 that holds as stated: the queue is closed at most once, is
\* never sent to after it was closed, and nothing that HandlePacket manages
\* changes once it is closed
QueueClosedOnce ==
    /\ [](/\ hist.chCloses <= 1
          /\ ~hist.sendOnClosed
          /\ (chClosed <=> hist.chCloses = 1)
          /\ (dataChClosed <=> chClosed))
    /\ [][chClosed =>
            /\ UNCHANGED <<service, method, chClosed, dataChClosed, clientErr>>
            /\ hist'.sent = hist.sent
            /\ hist'.nInvoked = hist.nInvoked]_vars

\* C8 as stated (after completion): once a completing CallData was handled,
\* every later CallData or CallStart returns ErrCompleted without enqueuing a
\* payload; the queue is never sent to after it was closed nor closed twice.
C8_Original ==
    /\ QueueClosedOnce
    /\ [][chClosed /\ IsCall => \A msg \in NowCallStarts \cup NowCallDatas :
            (HandlePacket(msg) /\ Validate(msg) = NoErr) =>
               /\ rdErr' = ErrCompleted
               /\ dataCh' = dataCh]_vars

\* C8 amended: once a completing CallData was handled, every later CallData
\* returns ErrCompleted and every later CallStart returns an error
\* (ErrCompleted if no call start was recorded, "call start must be sent only
\* once" if one was), none of them enqueuing a payload or changing the call;
\* the queue is never sent to after it was closed nor closed twice.
C8_AfterCompletion ==
    /\ QueueClosedOnce
    /\ [][chClosed /\ IsCall => \A msg \in NowCallStarts \cup NowCallDatas :
            HandlePacket(msg) =>
               /\ rdPC' = "returned"
               /\ rdErr' # NoErr
               /\ (msg.body = "CallData" => rdErr' = ErrCompleted)
               /\ (msg.body = "CallStart" /\ Validate(msg) = NoErr =>
                      rdErr' = IF service = "" /\ method = ""
                               THEN ErrCompleted ELSE ErrStartOnce)
               /\ UNCHANGED <<srvVars, invPC>>]_vars

C8_Witness ==
    /\ chClosed
    /\ hist.chCloses = 1
    /\ rdPC = "returned"
    /\ rdBody = "CallStart"
    /\ rdErr = ErrStartOnce
    /\ hist.nAccepted = 1

\* C9 (client cancel): a CallCancel packet handled while the handler is
\* running cancels the call's context.
C9_CallCancelCancelsContext ==
    (rdPC = "returned" /\ rdBody = "CallCancel"
        /\ invPC \in {"handler", "sendAndClose"}) => ctxDone

\* C10 (blocked HandleCallData): a HandleCallData call blocked on the full
\* receive queue is woken when the context is cancelled, returns
\* context.Canceled, enqueues nothing and does not close the queue; after an
\* accepted CallStart, with a handler that returns, no call stays blocked.
C10_BlockedCallDataUnblocks ==
    /\ [](rdPC = "blocked" => ~ctxDone /\ Len(dataCh) = DataChCap)
    /\ [][rdPC = "blocked" /\ ctxDone' => rdPC' = "wokenCancel"]_vars
    /\ [][rdPC = "wokenCancel" =>
            /\ hist'.sent = hist.sent
            /\ UNCHANGED <<chClosed, dataChClosed, clientErr>>
            /\ \/ rdPC' = "wokenCancel"
               \/ rdPC' = "returned" /\ rdErr' = ErrCanceled]_vars
    /\ (rdPC = "blocked" /\ hist.nAccepted = 1) ~> (rdPC = "returned")

\* a call that blocked after the CallStart was accepted has returned
\* context.Canceled once the invocation task cancelled the context
C10_Witness ==
    /\ rdPC = "returned"
    /\ rdPkt # NoPacket
    /\ rdPkt.complete
    /\ rdErr = ErrCanceled
    /\ hist.nAccepted = 1
    /\ hist.invLog # <<>>
    /\ hist.sent = hist.received \o dataCh
    /\ ~chClosed

\* C11 (cancellation releases the transport): once ServerRPC.Close was
\* called, in whatever state of the call, the context is cancelled, and the
\* writer is eventually closed (the handler returns, the tasks are scheduled).
C11_CloseReleasesTransport ==
    /\ [](hist.nCloseCalls > 0 => ctxDone)
    /\ (hist.nCloseCalls > 0) ~> writerClosed

\* this step is a stream operation of the handler
IsHandlerOp == hist'.nHandlerOps # hist.nHandlerOps

\* C12 (MsgSend fails fast): a MsgSend called with the stream context already
\* cancelled returns context.Canceled and writes no packet; the context is
\* cancelled once ServerRPC.Close was called or the invocation task cancelled
\* it, so every MsgSend after either of them writes nothing.
C12_MsgSendFailsFast ==
    /\ []((hist.nCloseCalls > 0 \/ Len(hist.invLog) >= 2) => ctxDone)
    /\ [][ctxDone /\ IsHandlerOp =>
            \A data \in HandlerMsgs :
               (MsgSend(data) \/ SendAndClose(data)) =>
                   /\ written' = written
                   /\ hist'.sendErr = ErrCanceled
                   /\ invPC' = invPC]_vars

C12_Witness ==
    /\ invPC = "handler"
    /\ hist.nCloseCalls > 0
    /\ hist.nHandlerOps > 0
    /\ hist.sendErr = ErrCanceled
    /\ ~writerClosed
    /\ written = <<>>

\* the stream has emitted CallData{complete=true} while the handler runs
CloseSent ==
    /\ invPC = "handler"
    /\ \E i \in 1..Len(written) : written[i].complete

\* C13 (no send after CloseSend): after CloseSend has emitted
\* CallData{complete=true}, every further MsgSend on the stream returns an
\* error and emits no packet.
C13_NoSendAfterCloseSend ==
    [][CloseSent /\ IsHandlerOp =>
          \A data \in HandlerMsgs :
             HandlerMsgSend(data) =>
                 /\ written' = written
                 /\ hist'.sendErr # NoErr]_vars

\* C14 (no double close): however often MsgStream.Close is called on one
\* stream, the close callback fires at most once, and a Close after the first
\* emits no further packet.
C14_NoDoubleClose ==
    /\ [](hist.closeCbCalls <= 1)
    /\ [][hist.closeCbCalls >= 1 /\ IsHandlerOp /\ HandlerStreamClose =>
            /\ written' = written
            /\ hist'.closeCbCalls = hist.closeCbCalls]_vars

(***************************************************************************)
(* Properties of the TypeScript CommonRPC.                                 *)
(***************************************************************************)
\* C15 (terminal packet is last): once a CallData with complete or an error,
\* or a CallCancel, was pushed to the outgoing source, no further packet is
\* pushed: a terminal packet is found only at the end of the source.
C15_TerminalIsLast ==
    \A i \in 1..Len(ts.source) :
        TsIsTerminal(ts.source[i]) => i = Len(ts.source)

(***************************************************************************)
(* Properties of the rpcstream tunnel.                                     *)
(***************************************************************************)
\* C16 (opening handshake): Init{componentId} is the first packet the opener
\* sends, before any Data frame.  With waitAck OpenRpcStream receives exactly
\* one packet before it returns and succeeds only on an Ack with an empty
\* error; an Ack with error e fails with "remote: " followed by e, any other
\* packet with a protocol error.  Without waitAck it receives no packet.
C16_OpeningHandshake ==
    /\ (tun.oSent # <<>> =>
           /\ tun.oSent[1] = TunInit(tun.oComp)
           /\ \A i \in 2..Len(tun.oSent) : tun.oSent[i].body = "Data")
    /\ (tun.oRw => tun.oPC = "done" /\ tun.oErr = NoErr /\ tun.oSent # <<>>)
    /\ (tun.oPC = "done" /\ tun.oSent # <<>> =>
           IF tun.oWaitAck
           THEN /\ tun.oRecvs = 1
                /\ (tun.oRw =>
                       tun.oRecvPkt.body = "Ack" /\ tun.oRecvPkt.error = "")
                /\ (tun.oRecvPkt.body = "Ack" /\ tun.oRecvPkt.error # "" =>
                       /\ ~tun.oRw
                       /\ tun.oErr = "remote: " \o tun.oRecvPkt.error)
                /\ (tun.oRecvPkt.body \in {"Data", "Init"} =>
                       ~tun.oRw /\ tun.oErr = ErrExpectedAck)
           ELSE tun.oRecvs = 0 /\ tun.oRw)
    /\ (tun.oPC # "done" => ~tun.oRw)

C16_Witness ==
    /\ tun.oPC = "done"
    /\ tun.oWaitAck
    /\ tun.oSent = <<TunInit("comp")>>
    /\ tun.oRecvPkt = TunAck(ErrNoServer)
    /\ tun.oErr = "remote: no server for that component"
    /\ ~tun.oRw

\* the first packet received by the acceptor was not a valid Init
InitRejected ==
    /\ tun.hPC = "done"
    /\ \/ tun.hInitPkt.body # "Init"
       \/ tun.hInitPkt.componentId = ""

\* C17 (Init validation): if the first packet received is not an Init, or is
\* an Init with a missing or empty componentId, HandleRpcStream returns an
\* error without calling the getter, sending an Ack or a Data packet, or
\* starting a nested ServerRPC.
C17_InitValidation ==
    /\ (InitRejected =>
           /\ tun.hResult # NoErr
           /\ tun.hGetterCalls = 0
           /\ tun.hSendCalls = 0 /\ tun.hSent = <<>>
           /\ ~tun.hNested
           /\ tun.hLog = <<>>)
    /\ (tun.hGetterCalls > 0 =>
           tun.hInitPkt.body = "Init" /\ tun.hInitPkt.componentId # "")

C17_Witness ==
    /\ InitRejected
    /\ tun.hInitPkt = TunInit("")
    /\ tun.hResult = ErrEmptyComponent

\* the acceptor has sent its Ack (the Send call was made)
AckPos == CHOOSE i \in 1..Len(tun.hLog) : tun.hLog[i] = "ack"
Acked == \E i \in 1..Len(tun.hLog) : tun.hLog[i] = "ack"
LogCount(ev) == Cardinality({i \in 1..Len(tun.hLog) : tun.hLog[i] = ev})

\* C18 (Ack): for every valid Init HandleRpcStream sends exactly one Ack,
\* before any Data frame of the nested session.  The Ack error is empty iff
\* the getter returned a mux and no error, and is "no server for that
\* component" when it returned neither.  When the Ack error is non-empty no
\* nested ServerRPC is started and HandleRpcStream returns the resolution
\* error.
C18_AcceptorAck ==
    /\ LogCount("ack") <= 1
    /\ (tun.hPC \in {"nested", "done"} /\ tun.hGetterCalls > 0 =>
           LogCount("ack") = 1 /\ tun.hSendCalls >= 1)
    /\ (tun.hSent # <<>> =>
           /\ tun.hSent[1] = TunAck(tun.hErr)
           /\ \A i \in 2..Len(tun.hSent) : tun.hSent[i].body = "Data")
    /\ \A i \in 1..Len(tun.hLog) :
           tun.hLog[i] \in {"nested", "write"} => Acked /\ AckPos < i
    /\ (Acked =>
           /\ (tun.hErr = NoErr <=> (tun.hMux /\ tun.hGetErr = NoErr))
           /\ (~tun.hMux /\ tun.hGetErr = NoErr => tun.hErr = ErrNoServer)
           /\ (tun.hErr # NoErr =>
                  /\ ~tun.hNested
                  /\ tun.hPC = "done"
                  /\ tun.hResult = tun.hErr
                  /\ LogCount("write") = 0))

C18_Witness ==
    /\ tun.hPC = "done"
    /\ tun.hSent = <<TunAck(ErrNoServer)>>
    /\ ~tun.hMux /\ tun.hGetErr = NoErr
    /\ tun.hResult = ErrNoServer
    /\ ~tun.hNested

\* C19 (release discipline): the release callback is invoked exactly once
\* per HandleRpcStream call if the getter returned a mux and a release
\* callback, whether or not it also returned an error, and never when the
\* mux is nil; it runs only after the Ack was sent and after the nested
\* session, if any, has ended.
C19_ReleaseDiscipline ==
    /\ tun.hReleases <= 1
    /\ tun.hReleases = LogCount("release")
    /\ (tun.hPC = "done" /\ tun.hGetterCalls > 0 =>
           tun.hReleases = IF tun.hMux /\ tun.hRel THEN 1 ELSE 0)
    /\ (tun.hReleases > 0 =>
           /\ tun.hMux
           /\ tun.hPC = "done"
           /\ tun.hLog[Len(tun.hLog)] = "release"
           /\ Acked
           /\ (tun.hNested => tun.hLog[Len(tun.hLog) - 1] = "nestedEnd"))

C19_Witness ==
    /\ tun.hPC = "done"
    /\ tun.hMux /\ tun.hRel
    /\ tun.hGetErr = ErrGetter
    /\ tun.hReleases = 1
    /\ tun.hLog = <<"getter", "ack", "release">>

\* this step is a Write call on the opener's read/writer
IsWrite == tun'.wCalls # tun.wCalls

\* the frames the step sent on the opener's outer stream
FramesSent == SubSeq(tun'.oSent, Len(tun.oSent) + 1, Len(tun'.oSent))

\* C20 as stated (Write): for every byte slice p, Write(p) sends exactly one
\* Data frame whose payload is the whole of p and returns (len(p), nil); if
\* the send fails it returns (0, the send error).
C20_Original ==
    [][IsWrite =>
          \A p \in TunPayloads, sendErr \in SendErrs :
             OpenerWrite(p, sendErr) =>
                 /\ tun'.oSendCalls = tun.oSendCalls + 1
                 /\ IF sendErr = NoErr
                    THEN /\ FramesSent = <<TunData(p)>>
                         /\ tun'.wN = Len(p) /\ tun'.wErr = NoErr
                    ELSE /\ FramesSent = <<>>
                         /\ tun'.wN = 0 /\ tun'.wErr = sendErr]_vars

\* C20 amended: for every non-empty byte slice p, Write(p) sends exactly one
\* Data frame whose payload is the whole of p and returns (len(p), nil), or
\* (0, the send error) if the send fails; for an empty p it sends no frame
\* and returns (0, nil).
C20_WriteOneFrame ==
    [][IsWrite =>
          \A p \in TunPayloads, sendErr \in SendErrs :
             OpenerWrite(p, sendErr) =>
                 IF Len(p) = 0
                 THEN /\ tun'.oSendCalls = tun.oSendCalls
                      /\ FramesSent = <<>>
                      /\ tun'.wN = 0 /\ tun'.wErr = NoErr
                 ELSE /\ tun'.oSendCalls = tun.oSendCalls + 1
                      /\ IF sendErr = NoErr
                         THEN /\ FramesSent = <<TunData(p)>>
                              /\ tun'.wN = Len(p) /\ tun'.wErr = NoErr
                         ELSE /\ FramesSent = <<>>
                              /\ tun'.wN = 0 /\ tun'.wErr = sendErr]_vars

C20_Witness ==
    /\ tun.wCalls = 2
    /\ tun.wN = 2 /\ tun.wErr = NoErr
    /\ tun.oSendCalls = 2
    /\ tun.oSent = <<TunInit(tun.oComp), TunData(<<1, 2>>)>>

\* C21 (nested tunnel framing): whatever the chunking of the received Data
\* frames (empty frames included) and whatever the sizes of the Read buffers,
\* the bytes returned by the successive Read calls, followed by the bytes the
\* running call has copied and by the remainder held in the buffer, are the
\* Data payloads in arrival order: no byte is lost, duplicated or reordered,
\* and a buffered remainder goes out before any newly received frame.
C21_TunnelFraming == tun.rOut \o tun.rCur \o tun.rBuf = tun.rIn

\* a frame of three bytes was read by two calls with a buffer of two bytes:
\* the second call returned the remainder without receiving a packet
C21_Witness ==
    /\ tun.rPC = "idle"
    /\ tun.rCalls = 2 /\ tun.rSize = 2
    /\ tun.rIn = <<1, 2, 3>>
    /\ tun.rOut = <<1, 2, 3>>
    /\ tun.rN = 1 /\ tun.rErr = NoErr
    /\ tun.rPkt = TunNone

\* C22 (RawMessage round trip): for every byte string d, both values of the
\* copy flag and every prior content of the message, after UnmarshalVT(d)
\* the bytes returned by MarshalVT and by GetData are equal to d, and
\* MarshalVT (like UnmarshalVT) returns no error.
C22_RawRoundTrip ==
    raw.unm =>
        /\ raw.unmErr = NoErr
        /\ (raw.marshalled => raw.out = raw.d /\ raw.outErr = NoErr)
        /\ (raw.got => raw.data = raw.d)

\* a copying message holding two bytes took a one-byte string: the slice was
\* cut to one byte, and both accessors returned that byte
C22_Witness ==
    /\ raw.copy /\ raw.unm
    /\ raw.d = <<2>>
    /\ raw.arr = <<2, 1>> /\ raw.len = 1
    /\ raw.marshalled /\ raw.out = <<2>>
    /\ raw.got /\ raw.data = <<2>>

\* this step writes a packet on the call's writer
IsPacketWrite == written' # written

\* this step belongs to the packet-handling path (HandlePacket and the
\* handlers it calls, Close)
IsPacketPathStep ==
    \/ IsCall
    \/ rdPC \in {"wokenSend", "wokenCancel", "returned"} /\ rdPC' # rdPC
    \/ hist'.nCloseCalls # hist.nCloseCalls

\* C23 (writes serialized): at most one invocation task is started for a
\* call; every step that writes a packet is a step of that task, either a send
\* of the running handler or the terminal write after the handler returned,
\* and nothing is written after the terminal write; no step of the
\* packet-handling path (HandlePacket, HandleCallStart, HandleCallData,
\* Close) writes a packet.
C23_WritesSerialized ==
    /\ [](hist.nInvoked <= 1)
    /\ [][IsPacketWrite =>
            /\ hist.nInvoked = 1
            /\ ~IsPacketPathStep
            /\ \/ invPC \in {"handler", "sendAndClose"} /\ hist'.invLog = <<>>
               \/ invPC = "returned" /\ hist'.invLog = <<"write">>]_vars
    /\ [][IsPacketPathStep => ~IsPacketWrite]_vars

\* the handler sent one message and returned, the invocation task wrote the
\* terminal packet after it, and Close was called as well
C23_Witness ==
    /\ Len(written) = 2
    /\ ~IsTerminal(written[1])
    /\ IsTerminal(written[2])
    /\ hist.invLog = <<"write", "cancel", "close">>
    /\ hist.nCloseCalls = 1
    /\ hist.nHandlerOps = 1

\* C24 (bounded receive queue): the receive queue never holds more than 5
\* payloads, and the payloads received by the handler followed by the queued
\* ones are the payloads sent, in order; a HandleCallData with a payload that
\* finds the queue full waits with the queue untouched (or returns
\* context.Canceled at once if the context is already cancelled), and it stops
\* waiting only by enqueuing its payload behind the others when the handler
\* dequeues one, or by the cancellation of the context.
C24_QueueBounded ==
    /\ [](/\ Len(dataCh) <= DataChCap
          /\ hist.received \o dataCh = hist.sent
          /\ (rdPC = "blocked" =>
                 Len(dataCh) = DataChCap /\ Len(rdPkt.data) # 0))
    /\ [][IsCall /\ Len(dataCh) = DataChCap /\ ~dataChClosed =>
            \A msg \in NowCallDatas :
               Len(msg.data) # 0 /\ HandlePacket(msg) =>
                   /\ dataCh' = dataCh
                   /\ hist'.sent = hist.sent
                   /\ IF rdPC' = "blocked"
                      THEN ~ctxDone /\ rdPkt' = msg
                      ELSE ctxDone /\ rdPC' = "returned"
                           /\ rdErr' = ErrCanceled]_vars
    /\ [][rdPC = "blocked" =>
            \/ rdPC' = "blocked" /\ dataCh' = dataCh
            \/ /\ rdPC' = "wokenSend"
               /\ hist'.received = Append(hist.received, Head(dataCh))
               /\ dataCh' = Append(Tail(dataCh), rdPkt.data)
            \/ /\ rdPC' = "wokenCancel"
               /\ ctxDone' /\ dataCh' = dataCh]_vars

\* a sixth payload waited for room, was enqueued when the handler took the
\* first one, and its HandleCallData returned nil
C24_Witness ==
    /\ rdPC = "returned" /\ rdErr = NoErr
    /\ rdPkt # NoPacket
    /\ Len(dataCh) = DataChCap
    /\ Len(hist.received) = 1
    /\ Len(hist.sent) = DataChCap + 1

\* this step is a call of ServerRPC.Close
IsCloseCall == hist'.nCloseCalls # hist.nCloseCalls

\* the handler of the invocation task is running
HandlerRunning == invPC \in {"handler", "sendAndClose"}

\* C25 (Close and the writer): ServerRPC.Close closes the writer itself
\* exactly when no invocation task has been started for the call, also when
\* the accepted CallStart named a method and an empty service; so the writer
\* is never closed both by Close and by the invocation task, and Close never
\* closes the writer while a handler is running.
C25_CloseClosesIffNotInvoked ==
    /\ [][IsCloseCall =>
            /\ (hist'.closeLog = Append(hist.closeLog, "Close"))
                   <=> (hist.nInvoked = 0)
            /\ (hist'.closeLog # hist.closeLog => ~HandlerRunning)]_vars
    /\ [](\A i, j \in 1..Len(hist.closeLog) :
             ~(hist.closeLog[i] = "Close" /\ hist.closeLog[j] = "invokeRPC"))

\* this step is a HandleCallStart call that reached the send of the inline
\* payload (lines 84-91)
IsInlineEnqueue ==
    /\ IsCall
    /\ rdBody' = "CallStart"
    /\ (dataCh' # dataCh \/ rdErr' = ErrChanFull)

\* C26 (the inline payload finds the queue empty): whenever HandleCallStart
\* enqueues the inline payload of an accepted CallStart the receive queue is
\* empty, whatever packets were handled before, and no HandlePacket call
\* returns "data channel was full, expected empty".
C26_InlineFindsQueueEmpty ==
    /\ [][IsInlineEnqueue => dataCh = <<>>]_vars
    /\ [](rdErr # ErrChanFull)

\* this step closes the receive queue
IsQueueClose == ~chClosed /\ chClosed'

\* C27 (clientErr): r.clientErr is written only by a HandleCallData call,
\* only while the receive queue is open, and that call closes the queue in
\* the same step; it never changes once the queue is closed; at the step that
\* closes the queue clientErr becomes the error of the closing CallData if
\* that is non-empty and stays nil otherwise, so a handler that finds the
\* queue closed reads a clientErr that is non-nil iff the closing CallData
\* carried an error.
C27_ClientErrDiscipline ==
    /\ [](clientErr # NoErr => chClosed /\ dataChClosed)
    /\ [][clientErr' # clientErr =>
            /\ rdBody' = "CallData"
            /\ rdPC \in {"idle", "wokenSend"} /\ rdPC' = "returned"
            /\ IsQueueClose]_vars
    /\ [][chClosed => clientErr' = clientErr]_vars
    /\ [][IsQueueClose =>
            /\ rdBody' = "CallData"
            /\ IF IsCall
               THEN \A msg \in NowCallDatas :
                       HandlePacket(msg) => clientErr' = msg.error
               ELSE clientErr' = rdPkt.error]_vars
    /\ [][/\ IsHandlerOp /\ chClosed /\ dataCh = <<>>
           /\ hist'.recvErr \notin {hist.recvErr, ErrCanceled}
           => hist'.recvErr = IF clientErr # NoErr THEN clientErr
                              ELSE ErrEOF]_vars

\* the closing CallData carried an error and the handler, finding the queue
\* closed and empty, read it
C27_Witness ==
    /\ chClosed /\ dataCh = <<>>
    /\ clientErr \in ClientErrs
    /\ hist.recvErr = clientErr
    /\ hist.nHandlerOps = 1

\* C28 (other packets change nothing): a HandlePacket call given a packet
\* that is neither a CallStart nor a CallData leaves service, method, the
\* receive queue, its closed flag, clientErr and the invocation status as they
\* were, in every state of the call; it returns the unrecognized-packet error
\* for a CallStartResp and nil for an unknown body variant.
C28_OtherPacketsNoEffect ==
    [][IsCall /\ rdBody' \notin {"CallStart", "CallData"} =>
          /\ UNCHANGED <<service, method, dataCh, chClosed, dataChClosed,
                         clientErr, invPC>>
          /\ hist'.nInvoked = hist.nInvoked
          /\ rdPC' = "returned"
          /\ (rdBody' = "CallStartResp" => rdErr' = ErrUnrecognizedPacket)
          /\ (rdBody' = "None" => rdErr' = NoErr)]_vars

\* a CallStartResp was refused while the handler was running with a payload
\* queued
C28_Witness ==
    /\ rdBody = "CallStartResp"
    /\ rdPC = "returned"
    /\ rdErr = ErrUnrecognizedPacket
    /\ invPC = "handler"
    /\ Len(dataCh) = 1
    /\ service = "svc" /\ method = "Echo"

\* a Read call with a buffer of at least one byte has returned
ReadReturned == tun.rPC = "idle" /\ tun.rCalls > 0 /\ tun.rSize >= 1

\* C29 (Read returns with the first bytes): within one Read call no packet is
\* received from the outer stream after a byte was copied into the caller's
\* buffer, and a Read with a non-empty buffer returns either n >= 1 with a nil
\* error or n = 0 with a non-nil error, never (0, nil).
C29_ReadReturnsEarly ==
    /\ ~tun.rLate
    /\ (ReadReturned =>
           \/ tun.rN >= 1 /\ tun.rN <= tun.rSize /\ tun.rErr = NoErr
           \/ tun.rN = 0 /\ tun.rErr # NoErr)

\* a Read with room for two bytes received a frame of one byte and returned
\* (1, nil) without receiving again
C29_Witness ==
    /\ ReadReturned
    /\ tun.rCalls = 1 /\ tun.rSize = 2
    /\ tun.rPkt = DataFrame(0, 1)
    /\ tun.rN = 1 /\ tun.rErr = NoErr
    /\ tun.rOut = <<1>> /\ tun.rIn = <<1>>

\* this step is a Recv of a Read call that returned an Ack
IsAckRecv == tun'.rPkt # tun.rPkt /\ tun'.rPkt.body = "Ack"

\* C30 (the Ack of a tunnel opened with waitAck = false): the Read call that
\* receives an Ack with a non-empty error returns that error with n = 0 and
\* delivers no byte from the packet; an Ack with an empty error is skipped:
\* the call goes on with what it has copied so far; in both cases the bytes
\* copied, buffered and received are untouched, and the byte stream stays the
\* concatenation of the Data payloads.
C30_AckConsumedByRead ==
    /\ [][~tun.oWaitAck /\ IsAckRecv =>
            /\ tun'.rCur = tun.rCur /\ tun'.rBuf = tun.rBuf
            /\ tun'.rIn = tun.rIn /\ tun'.rOut = tun.rOut
            /\ tun'.rN = tun.rN
            /\ IF tun'.rPkt.error # NoErr
               THEN /\ tun'.rPC = "idle"
                    /\ tun'.rErr = tun'.rPkt.error
                    /\ tun'.rN = 0
               ELSE tun'.rPC = "loop" /\ tun'.rErr = NoErr]_vars
    /\ [](~tun.oWaitAck /\ tun.rPkt.body = "Ack" /\ tun.rPkt.error # NoErr =>
             tun.rPC = "idle" /\ tun.rErr = tun.rPkt.error /\ tun.rN = 0)
    /\ [](~tun.oWaitAck /\ tun.rPC = "idle" => tun.rOut \o tun.rBuf = tun.rIn)

\* opened without waiting for the Ack: the first Read returned a byte, the
\* second received the Ack carrying the acceptor's error and returned it
C30_Witness ==
    /\ tun.oRw /\ ~tun.oWaitAck
    /\ tun.rPC = "idle" /\ tun.rCalls = 2
    /\ tun.rPkt = TunAck(ErrNoServer)
    /\ tun.rErr = ErrNoServer /\ tun.rN = 0
    /\ tun.rOut = <<1>> /\ tun.rIn = <<1>>

\* the CallData packets a peer may send
TsInCallDatas == {pkt \in TsInPackets : pkt.body = "CallData"}

\* this step is a call on the CommonRPC made while service or method is unset
IsUnstartedCall == ts'.ops # ts.ops /\ (ts.service = "" \/ ts.method = "")

\* no close() was called on the CommonRPC so far
NeverClosed == ts.closing = <<>> /\ ~ts.sourceEnded /\ ~ts.rpcDataEnded

\* what handlePacket does at once with a CallData before the call start
ThrowsStartBeforeData ==
    /\ ts'.thrown = ErrStartBeforeData
    /\ ts'.rpcData = ts.rpcData
    /\ ts'.source = Append(ts.source, TsCallCancel)
    /\ ts'.closing = Append(ts.closing, ErrStartBeforeData)

\* the close() started with that error ends both sources
ClosedWithStartBeforeData ==
    /\ ts'.rpcDataEnded /\ ts'.rpcDataErr = ErrStartBeforeData
    /\ ts'.sourceEnded

\* this step is the finally block of a close() called with that error
IsStartBeforeDataFinally ==
    /\ ts.closing # <<>>
    /\ ts'.closing = Tail(ts.closing)
    /\ Head(ts.closing) = ErrStartBeforeData

IsTsCall == ts'.ops # ts.ops

\* the call has started and its rpc data source is open: handleCallData
\* takes the packet
TsReceiving == ts.service # "" /\ ts.method # "" /\ ~ts.rpcDataEnded

\* C32 (TypeScript dataIsZero round trip): every packet writeCallData builds
\* has dataIsZero set iff a zero-length payload was supplied, so dataIsZero
\* implies an empty data field, and so has every CallData on the outgoing
\* source; handleCallData of a peer that takes the packet pushes exactly one
\* payload equal to the supplied one (the zero-length payload included) when
\* a payload was supplied, and pushes nothing when none was.
C32_DataIsZeroRoundTrip ==
    /\ [](\A i \in 1..Len(ts.source) :
             ts.source[i].dataIsZero => Len(ts.source[i].data) = 0)
    /\ [][IsTsCall /\ ~ts.sourceEnded =>
            \A a \in TsPayloads, c \in BOOLEAN, e \in {NoErr} \cup ClientErrs :
               writeCallData(a, c, e) =>
                  LET pkt == ts'.source[Len(ts'.source)]
                  IN /\ Len(ts'.source) = Len(ts.source) + 1
                     /\ pkt.data = a[2]
                     /\ pkt.dataIsZero <=> (a[1] /\ Len(a[2]) = 0)]_vars
    /\ [][IsTsCall /\ TsReceiving =>
            \A a \in TsPayloads, c \in BOOLEAN, e \in {NoErr} \cup ClientErrs :
               handlePacket(TsCallData(a, c, e)) =>
                  ts'.rpcData = IF a[1] THEN Append(ts.rpcData, a[2])
                                ELSE ts.rpcData]_vars

\* a started call was given the packet of a zero-length payload and pushed
\* one zero-length payload to its rpc data source
C32_Witness ==
    /\ ts.service = "svc" /\ ts.method = "Echo"
    /\ ts.ops = 1
    /\ ts.thrown = NoErr
    /\ ts.rpcData = << <<>> >>
    /\ ts.source = <<>>

\* OpenRpcStream returned an error after the outer call was opened
OpenFailedAfterCall ==
    tun.oPC = "done" /\ tun.oErr # NoErr /\ tun.oSendCalls > 0

\* C33 (OpenRpcStream releases the outer call): when OpenRpcStream fails
\* after the outer call was opened (the Init send failed, or while waiting for
\* the Ack the receive failed, the Ack carried an error or another packet
\* came) the outer stream was closed exactly once and no read/writer is
\* returned; when it succeeds the outer stream was not closed and a
\* read/writer is returned; the stream is not closed while the call runs or
\* when the outer call could not be opened.
C33_OpenReleasesOnFailure ==
    /\ (OpenFailedAfterCall => tun.oCloses = 1 /\ ~tun.oRw)
    /\ (tun.oPC = "done" /\ tun.oErr = NoErr => tun.oCloses = 0 /\ tun.oRw)
    /\ (tun.oPC # "done" \/ tun.oSendCalls = 0 => tun.oCloses = 0 /\ ~tun.oRw)
    /\ (tun.oPC = "done" /\ tun.oSendCalls > 0 =>
           (tun.oErr # NoErr) <=>
               \/ tun.oSent = <<>>
               \/ /\ tun.oWaitAck
                  /\ \/ tun.oRecvPkt = TunNone
                     \/ tun.oRecvPkt.body # "Ack"
                     \/ tun.oRecvPkt.error # "")

\* the Init send failed: the outer stream was closed once and the error
\* returned without a read/writer
C33_Witness ==
    /\ tun.oPC = "done"
    /\ tun.oSendCalls = 1 /\ tun.oSent = <<>>
    /\ tun.oErr = ErrSendFailed
    /\ tun.oCloses = 1
    /\ ~tun.oRw

====
